---- MODULE Spec2Model ----
(***************************************************************************)
(* Tree reordering engine of the Super-Admin dashboard: the nested         *)
(* product-structure editor (src/app/supercontent/product-structure/       *)
(* page.tsx), whose flatten/rebuild transform, invariant helpers, drag     *)
(* classifier and mutation handlers are duplicated verbatim in the nested  *)
(* categories editor (src/app/categories/page.tsx, MAX_DEPTH = 5).         *)
(*                                                                         *)
(* Conventions.  Ids are the positive integers 1..MaxNodes (the code uses  *)
(* crypto.randomUUID() strings, always non-empty, hence truthy); None (0)  *)
(* stands for undefined/null, the falsy "no parent"/"no drag" value.  A    *)
(* name is a sequence of one-character strings so that trim() can be       *)
(* computed.  A nested node is a record with a children sequence; the      *)
(* parentId field that nested nodes carry is never read before             *)
(* flattenTree overwrites it, so nested nodes do not hold it; in the same  *)
(* way the children field that flat entries inherit from the spread is     *)
(* overwritten by buildTree before any read, so flat entries do not hold   *)
(* it.                                                                     *)
(***************************************************************************)
EXTENDS Integers, Sequences, FiniteSets, TLC

VARIABLES
  items,            \* useState<FieldItem[]>: the nested forest
  activeId,         \* id being dragged, None when no drag is in progress
  overId,           \* id last reported under the pointer by handleDragMove
  offsetLeft,       \* horizontal drag delta last reported by handleDragMove
  currentPosition,  \* DragIntention | null, written by handleDragOver
  effects,          \* requests issued by the handler that ran last
  probe,            \* inputs and result of the function or handler run last
                    \* (the specifications that run one function at a time)
  server            \* the JSON files behind the API routes and the requests
                    \* the route handlers are working on

vars ==
  <<items, activeId, overId, offsetLeft, currentPosition, effects, probe, server>>

(***************************************************************************)
(* Program constants and model bounds                                      *)
(***************************************************************************)
UNPARENT_THRESHOLD == -20
CHILD_THRESHOLD == 20
MAX_DEPTH == 3

\* number of node ids the editor specification may allocate
MaxNodes == 4
\* number of nodes of the forests fed to the pure transform functions
MaxPure == 4
\* number of nodes of the forests on which single handler runs are examined
MaxShape == 5

None == 0
Ids == 1..MaxNodes
PureIds == 1..MaxPure

Blank == " "
Names == {<<"p">>, <<"q">>}

(***************************************************************************)
(* Sequence helpers                                                        *)
(***************************************************************************)
\* Array.prototype.filter with the predicate "id differs from / not in"
RECURSIVE SeqWithout(_, _)
SeqWithout(s, drop) ==
  IF s = <<>> THEN <<>>
  ELSE IF Head(s).id \in drop THEN SeqWithout(Tail(s), drop)
       ELSE <<Head(s)>> \o SeqWithout(Tail(s), drop)

\* Array.prototype.findIndex on ids, 0-based, -1 when absent
IndexOfId(s, id) ==
  IF \E k \in 1..Len(s) : s[k].id = id
  THEN (CHOOSE k \in 1..Len(s) : s[k].id = id /\ \A j \in 1..(k-1) : s[j].id # id) - 1
  ELSE -1

\* Array.prototype.splice(index, 0, x), index 0-based
InsertAt(s, index, x) ==
  LET at == IF index < 0 THEN 0 ELSE IF index > Len(s) THEN Len(s) ELSE index
  IN SubSeq(s, 1, at) \o <<x>> \o SubSeq(s, at + 1, Len(s))

(***************************************************************************)
(* Tree Transform                                                          *)
(***************************************************************************)
FlatEntry(item, parentId) ==
  [id |-> item.id, name |-> item.name, type |-> item.type,
   required |-> item.required, parentId |-> parentId]

\* mutant: the recursive call hands the children the parentId it was
\* given instead of item.id
RECURSIVE flattenTreeSameParent(_, _)
flattenTreeSameParent(list, parentId) ==
  IF list = <<>> THEN <<>>
  ELSE LET item == Head(list)
       IN <<FlatEntry(item, parentId)>>
          \o flattenTreeSameParent(item.children, parentId)
          \o flattenTreeSameParent(Tail(list), parentId)

RECURSIVE flattenTree(_, _)
flattenTree(list, parentId) ==
  IF list = <<>> THEN <<>>
  ELSE LET item == Head(list)
       IN <<FlatEntry(item, parentId)>>
          \o flattenTree(item.children, item.id)
          \o flattenTree(Tail(list), parentId)

FlatIds(flat) == {flat[k].id : k \in 1..Len(flat)}

\* the entry the Map holds for an id (map.set: the last entry wins)
MapGet(flat, id) ==
  flat[CHOOSE k \in 1..Len(flat) :
         flat[k].id = id /\ \A j \in (k+1)..Len(flat) : flat[j].id # id]

\* second loop of buildTree: the pushes, as id references, in flat order
RECURSIVE LinkPass(_, _, _)
LinkPass(flat, k, acc) ==
  IF k > Len(flat) THEN acc
  ELSE LET f == flat[k]
       IN IF f.parentId = None
          THEN LinkPass(flat, k + 1, [acc EXCEPT !.result = Append(@, f.id)])
          ELSE IF f.parentId \in FlatIds(flat)
               THEN LinkPass(flat, k + 1,
                             [acc EXCEPT !.kids[f.parentId] = Append(@, f.id)])
               ELSE LinkPass(flat, k + 1, acc)

\* the object graph below the given references, as a nested value
RECURSIVE Materialize(_, _, _)
Materialize(flat, kids, refs) ==
  IF refs = <<>> THEN <<>>
  ELSE LET f == MapGet(flat, Head(refs))
       IN <<[id |-> f.id, name |-> f.name, type |-> f.type,
             required |-> f.required,
             children |-> Materialize(flat, kids, kids[f.id])]>>
          \o Materialize(flat, kids, Tail(refs))

buildTree(flat) ==
  LET linked == LinkPass(flat, 1,
                         [result |-> <<>>, kids |-> [i \in FlatIds(flat) |-> <<>>]])
  IN Materialize(flat, linked.kids, linked.result)

(***************************************************************************)
(* Structural Invariant Checker                                            *)
(***************************************************************************)
RECURSIVE ChildLists(_, _)
ChildLists(list, depth) ==
  IF list = <<>> THEN <<>>
  ELSE (IF Len(Head(list).children) > 0
        THEN <<[items |-> Head(list).children, depth |-> depth]>>
        ELSE <<>>)
       \o ChildLists(Tail(list), depth)

\* mutant: the children lists are queued with the depth of their parent
RECURSIVE DepthLoopSameDepth(_, _)
DepthLoopSameDepth(queue, id) ==
  IF queue = <<>> THEN -1
  ELSE LET cur == Head(queue)
       IN IF \E k \in 1..Len(cur.items) : cur.items[k].id = id
          THEN cur.depth
          ELSE DepthLoopSameDepth(Tail(queue) \o ChildLists(cur.items, cur.depth), id)

RECURSIVE DepthLoop(_, _)
DepthLoop(queue, id) ==
  IF queue = <<>> THEN -1
  ELSE LET cur == Head(queue)
       IN IF \E k \in 1..Len(cur.items) : cur.items[k].id = id
          THEN cur.depth
          ELSE DepthLoop(Tail(queue) \o ChildLists(cur.items, cur.depth + 1), id)

getDepth(list, id) ==
  IF Len(list) = 0 THEN -1
  ELSE DepthLoop(<<[items |-> list, depth |-> 0]>>, id)

RECURSIVE hasDescendant(_, _)
hasDescendant(tid, children) ==
  \E k \in 1..Len(children) :
     children[k].id = tid \/ hasDescendant(tid, children[k].children)

isDescendant(list, sourceId, targetId) ==
  IF \E k \in 1..Len(list) : list[k].id = sourceId
  THEN LET source == list[CHOOSE k \in 1..Len(list) : list[k].id = sourceId]
       IN hasDescendant(targetId, source.children)
  ELSE FALSE

(***************************************************************************)
(* Editor state                                                            *)
(***************************************************************************)
NoPosition == [type |-> "none", id |-> None]
\* op: the mutating handler that ran last ("none" after a drag event that
\* cannot mutate); saves: calls of saveFields; history: calls of addToHistory
\* entry: the action handed to addToHistory (its action type and the node
\* it names)
NoEntry == [action |-> "none", id |-> None, name |-> <<>>]
Effects(op, saves, history) ==
  [op |-> op, saves |-> saves, history |-> history, entry |-> NoEntry]
NoEffects == Effects("none", 0, 0)
NoProbe == [fn |-> "none"]
\* fields: the forest in app/database/product-structure.json; history: the
\* list in app/database/categories-history.json; requests: the requests
\* whose route handler has started and not yet returned; posted: the history
\* actions in the order their POST arrived; written: the forests in the
\* order the save handlers wrote them; sessions: the editors (browser tabs)
\* that talk to the routes
NoServer ==
  [fields |-> <<>>, history |-> <<>>, requests |-> {}, posted |-> <<>>,
   written |-> <<>>, sessions |-> <<>>]

flattenedTree == flattenTree(items, None)

\* flatItemsMap.get(id): defined when id is a key
FlatHas(id) == id \in FlatIds(flattenedTree)
FlatGet(id) == MapGet(flattenedTree, id)

\* String.prototype.trim on a sequence of characters
RECURSIVE TrimLeft(_)
TrimLeft(s) == IF s # <<>> /\ Head(s) = Blank THEN TrimLeft(Tail(s)) ELSE s
RECURSIVE TrimRight(_)
TrimRight(s) ==
  IF s # <<>> /\ s[Len(s)] = Blank THEN TrimRight(SubSeq(s, 1, Len(s) - 1)) ELSE s
Trim(s) == TrimRight(TrimLeft(s))

(***************************************************************************)
(* Drag-Intent Classifier                                                  *)
(***************************************************************************)
Min(a, b) == IF a < b THEN a ELSE b
Max(a, b) == IF a > b THEN a ELSE b

\* relativeY < 0.5 with relativeY = clamp(dy, 0, height) / height
UpperHalf(geo) == 2 * Max(0, Min(geo.dy, geo.height)) < geo.height

MidPoint(over, geo) ==
  IF UpperHalf(geo) THEN [type |-> "before", id |-> over]
  ELSE [type |-> "after", id |-> over]

\* mutant: the child rule admits a target at depth MAX_DEPTH-1
ClassifyDepthOffByOne(list, active, offset, over, geo) ==
  IF over = None \/ ~geo.overRect THEN NoPosition
  ELSE IF over = active THEN NoPosition
  ELSE LET flat == flattenTree(list, None)
       IN IF active \notin FlatIds(flat) \/ over \notin FlatIds(flat)
          THEN NoPosition
          ELSE IF isDescendant(list, active, over) THEN NoPosition
          ELSE LET src == MapGet(flat, active)
                   tgt == MapGet(flat, over)
                   overDepth == getDepth(list, over)
               IN IF ~geo.activeRect \/ geo.height = 0 THEN NoPosition
                  ELSE IF offset < UNPARENT_THRESHOLD /\ src.parentId # None
                       THEN IF tgt.parentId = None
                            THEN MidPoint(over, geo)
                            ELSE [type |-> "root", id |-> over]
                  ELSE IF offset > CHILD_THRESHOLD /\ overDepth < MAX_DEPTH
                       THEN [type |-> "child", id |-> over]
                  ELSE MidPoint(over, geo)

Classify(list, active, offset, over, geo) ==
  IF over = None \/ ~geo.overRect THEN NoPosition
  ELSE IF over = active THEN NoPosition
  ELSE LET flat == flattenTree(list, None)
       IN IF active \notin FlatIds(flat) \/ over \notin FlatIds(flat)
          THEN NoPosition
          ELSE IF isDescendant(list, active, over) THEN NoPosition
          ELSE LET src == MapGet(flat, active)
                   tgt == MapGet(flat, over)
                   overDepth == getDepth(list, over)
               IN IF ~geo.activeRect \/ geo.height = 0 THEN NoPosition
                  ELSE IF offset < UNPARENT_THRESHOLD /\ src.parentId # None
                       THEN IF tgt.parentId = None
                            THEN MidPoint(over, geo)
                            ELSE [type |-> "root", id |-> over]
                  ELSE IF offset > CHILD_THRESHOLD /\ overDepth < MAX_DEPTH - 1
                       THEN [type |-> "child", id |-> over]
                  ELSE MidPoint(over, geo)

handleDragStart(active) ==
  /\ activeId = None
  /\ FlatHas(active)
  /\ activeId' = active
  /\ effects' = NoEffects
  /\ UNCHANGED <<items, overId, offsetLeft, currentPosition>>

handleDragMove(dx, over) ==
  /\ activeId # None
  /\ offsetLeft' = dx
  /\ overId' = IF over # None THEN over ELSE overId
  /\ effects' = NoEffects
  /\ UNCHANGED <<items, activeId, currentPosition>>

handleDragOver(over, geo) ==
  /\ activeId # None
  /\ currentPosition' = Classify(items, activeId, offsetLeft, over, geo)
  /\ effects' = NoEffects
  /\ UNCHANGED <<items, activeId, overId, offsetLeft>>

(***************************************************************************)
(* Mutation Engine                                                         *)
(***************************************************************************)
\* findIndex((f, i) => f.parentId === tgt.id &&
\*           (i === newFlat.length - 1 || newFlat[i + 1].parentId !== tgt.id))
LastChildIndex(newFlat, tgtId) ==
  LET Hit(k) == /\ newFlat[k].parentId = tgtId
                /\ (k = Len(newFlat) \/ newFlat[k + 1].parentId # tgtId)
  IN IF \E k \in 1..Len(newFlat) : Hit(k)
     THEN (CHOOSE k \in 1..Len(newFlat) :
             Hit(k) /\ \A j \in 1..(k-1) : ~Hit(j)) - 1
     ELSE -1

\* index of the last entry without parent, -1 when there is none
LastRootIndex(newFlat) ==
  LET Roots == {k \in 1..Len(newFlat) : newFlat[k].parentId = None}
  IN IF Roots # {}
     THEN IndexOfId(newFlat,
                    newFlat[CHOOSE k \in Roots : \A j \in Roots : j <= k].id)
     ELSE -1

\* mutant: the drop is applied although nothing is under the pointer
DropAcceptedWithoutOver(list, active, over, pos) ==
  LET flat == flattenTree(list, None)
  IN /\ pos # NoPosition
     /\ active \in FlatIds(flat)
     /\ pos.id \in FlatIds(flat)
     /\ active # pos.id
     /\ (pos.type = "child" =>
           /\ ~isDescendant(list, active, pos.id)
           /\ ~(getDepth(list, pos.id) >= MAX_DEPTH - 1))

\* the early returns of handleDragEnd: TRUE when the drop is applied
DropAccepted(list, active, over, pos) ==
  LET flat == flattenTree(list, None)
  IN /\ over # None
     /\ pos # NoPosition
     /\ active \in FlatIds(flat)
     /\ pos.id \in FlatIds(flat)
     /\ active # pos.id
     /\ (pos.type = "child" =>
           /\ ~isDescendant(list, active, pos.id)
           /\ ~(getDepth(list, pos.id) >= MAX_DEPTH - 1))

\* the flat list after newFlat.splice(insertIndex, 0, updatedSrc)
SplicedFlat(list, active, pos) ==
  LET flat == flattenTree(list, None)
      src == MapGet(flat, active)
      tgt == MapGet(flat, pos.id)
      newFlat == SeqWithout(flat, {src.id})
      overIndex == IndexOfId(newFlat, tgt.id)
      lastChildIndex == LastChildIndex(newFlat, tgt.id)
      insertIndex ==
        CASE pos.type = "before" -> overIndex
          [] pos.type = "after" -> overIndex + 1
          [] pos.type = "child" ->
               IF lastChildIndex = -1 THEN overIndex + 1 ELSE lastChildIndex + 1
          [] pos.type = "root" -> LastRootIndex(newFlat) + 1
      newParentId ==
        CASE pos.type = "before" -> tgt.parentId
          [] pos.type = "after" -> tgt.parentId
          [] pos.type = "child" -> tgt.id
          [] pos.type = "root" -> None
      updatedSrc == [src EXCEPT !.parentId = newParentId]
  IN InsertAt(newFlat, insertIndex, updatedSrc)

\* mutant: setOffsetLeft(0) is missing
resetDragKeepsOffset ==
  /\ activeId' = None
  /\ overId' = None
  /\ offsetLeft' = offsetLeft
  /\ currentPosition' = NoPosition

resetDrag ==
  /\ activeId' = None
  /\ overId' = None
  /\ offsetLeft' = 0
  /\ currentPosition' = NoPosition

handleDragEnd(over) ==
  /\ activeId # None
  /\ IF DropAccepted(items, activeId, over, currentPosition)
     THEN /\ items' = buildTree(SplicedFlat(items, activeId, currentPosition))
          /\ effects' = Effects("dragEnd", 1, 0)
     ELSE /\ items' = items
          /\ effects' = Effects("dragEnd", 0, 0)
  /\ resetDrag

\* ids that crypto.randomUUID() may return: never one already in use
FreshIds == Ids \ FlatIds(flattenedTree)

\* The add button, the name input and the delete button are reached with the
\* pointer, which a drag in progress holds (the pointer-down on the drag
\* handle also takes the focus off the name input): the mutation handlers
\* run between drags.
NoDragInProgress == activeId = None

\* mutant: the new field is put in front of the roots
handleAddFieldFirst(newFieldName, newId) ==
  /\ NoDragInProgress
  /\ newId \in FreshIds
  /\ IF Trim(newFieldName) = <<>>
     THEN /\ items' = items
          /\ effects' = Effects("addField", 0, 0)
     ELSE /\ items' = <<[id |-> newId, name |-> Trim(newFieldName),
                         type |-> "text", required |-> FALSE,
                         children |-> <<>>]>> \o items
          /\ effects' = [Effects("addField", 1, 1) EXCEPT
                           !.entry = [action |-> "FIELD_CREATED", id |-> newId,
                                      name |-> Trim(newFieldName)]]
  /\ UNCHANGED <<activeId, overId, offsetLeft, currentPosition>>

handleAddField(newFieldName, newId) ==
  /\ NoDragInProgress
  /\ newId \in FreshIds
  /\ IF Trim(newFieldName) = <<>>
     THEN /\ items' = items
          /\ effects' = Effects("addField", 0, 0)
     ELSE /\ items' = Append(items,
                             [id |-> newId, name |-> Trim(newFieldName),
                              type |-> "text", required |-> FALSE,
                              children |-> <<>>])
          /\ effects' = [Effects("addField", 1, 1) EXCEPT
                           !.entry = [action |-> "FIELD_CREATED", id |-> newId,
                                      name |-> Trim(newFieldName)]]
  /\ UNCHANGED <<activeId, overId, offsetLeft, currentPosition>>

\* getAllChildren: the ids collected below parentId
RECURSIVE getAllChildren(_, _, _)
getAllChildren(flat, parentId, fuel) ==
  IF fuel = 0 THEN {}
  ELSE LET direct == {flat[k].id : k \in {j \in 1..Len(flat) : flat[j].parentId = parentId}}
       IN direct \cup UNION {getAllChildren(flat, c, fuel - 1) : c \in direct}

\* mutant: childrenIds.add(id) is missing, the node itself stays
handleDeleteKeepsNode(id) ==
  /\ NoDragInProgress
  /\ IF FlatHas(id)
     THEN LET childrenIds == getAllChildren(flattenedTree, id, Len(flattenedTree))
              newFlat == SeqWithout(flattenedTree, childrenIds)
          IN /\ items' = buildTree(newFlat)
             /\ effects' = Effects("delete", 1, 0)
     ELSE /\ items' = items
          /\ effects' = Effects("delete", 0, 0)
  /\ UNCHANGED <<activeId, overId, offsetLeft, currentPosition>>

handleDelete(id) ==
  /\ NoDragInProgress
  /\ IF FlatHas(id)
     THEN LET childrenIds == getAllChildren(flattenedTree, id, Len(flattenedTree))
                             \cup {id}
              newFlat == SeqWithout(flattenedTree, childrenIds)
          IN /\ items' = buildTree(newFlat)
             /\ effects' = Effects("delete", 1, 0)
     ELSE /\ items' = items
          /\ effects' = Effects("delete", 0, 0)
  /\ UNCHANGED <<activeId, overId, offsetLeft, currentPosition>>

\* onRename: items.map over the root list
onRename(id, newName) ==
  /\ items' = [k \in 1..Len(items) |->
                 IF items[k].id = id THEN [items[k] EXCEPT !.name = newName]
                 ELSE items[k]]
  /\ effects' = Effects("rename", 1, 0)
  /\ UNCHANGED <<activeId, overId, offsetLeft, currentPosition>>

\* mutant: onRename is called whatever the edited value
handleRenameAlways(id, editValue) ==
  /\ NoDragInProgress
  /\ FlatHas(id)
  /\ onRename(id, Trim(editValue))

\* ProductFieldItem.handleRename of the row that renders node id
handleRename(id, editValue) ==
  /\ NoDragInProgress
  /\ FlatHas(id)
  /\ IF Trim(editValue) # FlatGet(id).name
     THEN onRename(id, Trim(editValue))
     ELSE /\ effects' = Effects("rename", 0, 0)
          /\ UNCHANGED <<items, activeId, overId, offsetLeft, currentPosition>>

(***************************************************************************)
(* The editor specification                                                *)
(***************************************************************************)
ROW_HEIGHT == 48
Offsets == {UNPARENT_THRESHOLD - 1, UNPARENT_THRESHOLD, CHILD_THRESHOLD,
            CHILD_THRESHOLD + 1}
Geo(overRect, activeRect, height, dy) ==
  [overRect |-> overRect, activeRect |-> activeRect, height |-> height, dy |-> dy]
Geometries ==
  {Geo(FALSE, TRUE, ROW_HEIGHT, 0), Geo(TRUE, FALSE, ROW_HEIGHT, 0),
   Geo(TRUE, TRUE, 0, 0), Geo(TRUE, TRUE, ROW_HEIGHT, -5),
   Geo(TRUE, TRUE, ROW_HEIGHT, 23), Geo(TRUE, TRUE, ROW_HEIGHT, 24)}
NameInputs == {<<>>, <<Blank>>, <<"p">>, <<Blank, "p", Blank>>}
EditInputs == NameInputs \cup {<<"q">>, <<"q", Blank>>}

\* droppables registered with the DndContext: the rendered rows
Droppables == FlatIds(flattenedTree) \cup {None}

Init ==
  /\ items = <<>>
  /\ activeId = None
  /\ overId = None
  /\ offsetLeft = 0
  /\ currentPosition = NoPosition
  /\ effects = NoEffects
  /\ probe = NoProbe
  /\ server = NoServer

DragStart == \E a \in Ids : handleDragStart(a) /\ UNCHANGED <<probe, server>>
\* overId is written by handleDragMove and read by the rendering alone: in
\* the editor specification the pointer reports no row to handleDragMove
\* (SpecHandlers runs handleDragMove over every row)
DragMove ==
  \E dx \in Offsets, over \in {None} :
     handleDragMove(dx, over) /\ UNCHANGED <<probe, server>>
DragOver ==
  \E over \in Droppables, geo \in Geometries :
     handleDragOver(over, geo) /\ UNCHANGED <<probe, server>>
DragEnd == \E over \in Droppables : handleDragEnd(over) /\ UNCHANGED <<probe, server>>
AddField ==
  \E nm \in NameInputs, i \in Ids : handleAddField(nm, i) /\ UNCHANGED <<probe, server>>
Delete == \E id \in Ids : handleDelete(id) /\ UNCHANGED <<probe, server>>

Next == DragStart \/ DragMove \/ DragOver \/ DragEnd \/ AddField \/ Delete

Spec == Init /\ [][Next]_vars

(***************************************************************************)
(* Input forests.  The code compares ids for equality only, so every       *)
(* forest is, up to a renaming of its ids, one whose n nodes carry the ids *)
(* first..first+n-1 in depth-first order.                                  *)
(***************************************************************************)
RECURSIVE Shapes(_, _, _)
Shapes(first, n, nm) ==
  IF n = 0 THEN {<<>>}
  ELSE UNION {
         { <<[id |-> first, name |-> nm[first], type |-> "text",
              required |-> FALSE, children |-> cf]>> \o rest :
             cf \in Shapes(first + 1, c, nm),
             rest \in Shapes(first + 1 + c, n - 1 - c, nm) } :
         c \in 0..(n - 1) }

\* every forest of at most n nodes, all named "p"
ForestsUpTo(n) ==
  UNION { Shapes(1, k, [i \in 1..n |-> <<"p">>]) : k \in 0..n }

(***************************************************************************)
(* The transform specification: the pure functions applied to every nested *)
(* forest of at most MaxPure nodes, under every naming                     *)
(***************************************************************************)
PureForests ==
  UNION { UNION { Shapes(1, k, nm) : k \in 0..MaxPure } :
          nm \in [PureIds -> Names] }

\* flat lists that differ from a flattened forest in one parentId, which may
\* name an id the list does not hold
Repoint(flat, k, p) == [flat EXCEPT ![k].parentId = p]

InitTransform ==
  /\ items \in PureForests
  /\ activeId = None
  /\ overId = None
  /\ offsetLeft = 0
  /\ currentPosition = NoPosition
  /\ effects = NoEffects
  /\ probe = NoProbe
  /\ server = NoServer

Frame ==
  UNCHANGED <<items, activeId, overId, offsetLeft, currentPosition, effects,
              server>>

ApplyRoundTrip ==
  /\ probe' = [fn |-> "roundTrip", out |-> buildTree(flattenTree(items, None))]
  /\ Frame

ApplyBuildTree ==
  \E k \in 1..Len(flattenedTree), p \in PureIds \cup {None} :
     LET flat == Repoint(flattenedTree, k, p)
     IN /\ probe' = [fn |-> "buildTree", flat |-> flat, out |-> buildTree(flat)]
        /\ Frame

ApplyIsDescendant ==
  \E a \in PureIds, n \in PureIds :
     /\ probe' = [fn |-> "isDescendant", a |-> a, n |-> n,
                  out |-> isDescendant(items, a, n)]
     /\ Frame

ApplyGetDepth ==
  \E id \in PureIds :
     /\ probe' = [fn |-> "getDepth", id |-> id, out |-> getDepth(items, id)]
     /\ Frame

NextTransform ==
  ApplyRoundTrip \/ ApplyBuildTree \/ ApplyIsDescendant \/ ApplyGetDepth

SpecTransform == InitTransform /\ [][NextTransform]_vars

(***************************************************************************)
(* The handler specification: one run of a handler from every forest of at *)
(* most MaxShape nodes, between drags or in the middle of a drag (after    *)
(* handleDragStart and any handleDragMove); probe records the inputs of    *)
(* the run and, for a run that may change the forest, the forest it        *)
(* started from.                                                           *)
(***************************************************************************)
InitHandlers ==
  /\ items \in ForestsUpTo(MaxShape)
  /\ activeId \in FlatIds(flattenTree(items, None)) \cup {None}
  /\ overId = None
  /\ offsetLeft \in (IF activeId = None THEN {0} ELSE Offsets \cup {0})
  /\ currentPosition = NoPosition
  /\ effects = NoEffects
  /\ probe = NoProbe
  /\ server = NoServer

RunDragMove ==
  /\ probe = NoProbe
  /\ \E dx \in Offsets, over \in Droppables :
        /\ handleDragMove(dx, over)
        /\ probe' = [fn |-> "handleDragMove", dx |-> dx, over |-> over]
        /\ UNCHANGED server

RunDragOver ==
  /\ probe = NoProbe
  /\ \E over \in Droppables, geo \in Geometries :
        /\ handleDragOver(over, geo)
        /\ probe' = [fn |-> "handleDragOver", over |-> over, geo |-> geo]
        /\ UNCHANGED server

RunDelete ==
  /\ probe = NoProbe
  /\ \E id \in 1..MaxShape :
        /\ handleDelete(id)
        /\ probe' = [fn |-> "handleDelete", id |-> id, before |-> items]
        /\ UNCHANGED server

RunAddField ==
  /\ probe = NoProbe
  /\ \E nm \in NameInputs, i \in Ids :
        /\ handleAddField(nm, i)
        /\ probe' = [fn |-> "handleAddField", name |-> nm, id |-> i,
                     before |-> items]
        /\ UNCHANGED server

RunRename ==
  /\ probe = NoProbe
  /\ \E id \in 1..MaxShape, v \in EditInputs :
        /\ handleRename(id, v)
        /\ probe' = [fn |-> "handleRename", id |-> id, editValue |-> v,
                     before |-> items]
        /\ UNCHANGED server

NextHandlers ==
  RunDragMove \/ RunDragOver \/ RunDelete \/ RunAddField \/ RunRename

SpecHandlers == InitHandlers /\ [][NextHandlers]_vars

(***************************************************************************)
(* The drop specification: one run of handleDragEnd at the end of a drag,  *)
(* from every forest of at most MaxShape nodes, every dragged node and     *)
(* every intent handleDragOver can have left in currentPosition            *)
(***************************************************************************)
ReachableIntents(list, active) ==
  { Classify(list, active, off, over, geo) :
      off \in Offsets \cup {0},
      over \in FlatIds(flattenTree(list, None)) \cup {None},
      geo \in Geometries }

InitDrop ==
  /\ items \in ForestsUpTo(MaxShape)
  /\ activeId \in FlatIds(flattenTree(items, None))
  /\ overId = None
  /\ offsetLeft = 0
  /\ currentPosition \in ReachableIntents(items, activeId)
  /\ effects = NoEffects
  /\ probe = NoProbe
  /\ server = NoServer

RunDragEnd ==
  /\ probe = NoProbe
  /\ \E over \in Droppables :
        /\ handleDragEnd(over)
        /\ probe' = [fn |-> "handleDragEnd", over |-> over, active |-> activeId,
                     pos |-> currentPosition, before |-> items]
        /\ UNCHANGED server

NextDrop == RunDragEnd

SpecDrop == InitDrop /\ [][NextDrop]_vars

(***************************************************************************)
(* The gesture specification: one drag from every forest of at most        *)
(* MaxShape nodes.  The pointer enters a row (handleDragOver), moves       *)
(* sideways over the same row (handleDragMove, at most once) and is        *)
(* released (handleDragEnd).  probe keeps what the pointer reported last.  *)
(***************************************************************************)
InitGesture ==
  /\ items \in ForestsUpTo(MaxShape)
  /\ activeId \in FlatIds(flattenTree(items, None))
  /\ overId = None
  /\ offsetLeft \in Offsets \cup {0}
  /\ currentPosition = NoPosition
  /\ effects = NoEffects
  /\ probe = NoProbe
  /\ server = NoServer

GestureOver ==
  /\ probe = NoProbe
  /\ \E over \in Droppables \ {None}, geo \in Geometries :
        /\ handleDragOver(over, geo)
        /\ probe' = [fn |-> "handleDragOver", over |-> over, geo |-> geo]
        /\ UNCHANGED server

GestureMove ==
  /\ probe.fn = "handleDragOver"
  /\ \E dx \in Offsets :
        /\ handleDragMove(dx, probe.over)
        /\ probe' = [fn |-> "handleDragMove", over |-> probe.over,
                     geo |-> probe.geo]
        /\ UNCHANGED server

GestureEnd ==
  /\ probe.fn \in {"handleDragOver", "handleDragMove"}
  /\ handleDragEnd(probe.over)
  /\ probe' = [fn |-> "handleDragEnd", over |-> probe.over, geo |-> probe.geo,
               active |-> activeId, offset |-> offsetLeft,
               pos |-> currentPosition, before |-> items]
  /\ UNCHANGED server

NextGesture == GestureOver \/ GestureMove \/ GestureEnd

SpecGesture == InitGesture /\ [][NextGesture]_vars

(***************************************************************************)
(* The nested categories editor (src/app/categories/page.tsx).  Its        *)
(* flattenTree, buildTree, getDepth and isDescendant are those of the      *)
(* product-structure editor; its depth limit is 5 and its handlers hand an *)
(* action to addToHistory.  One handler run from every forest of at most   *)
(* MaxShape nodes.                                                         *)
(***************************************************************************)
MAX_DEPTH_CATEGORIES == 5

\* handleDragOver of the categories editor
ClassifyCategories(list, active, offset, over, geo) ==
  IF over = None \/ ~geo.overRect THEN NoPosition
  ELSE IF over = active THEN NoPosition
  ELSE LET flat == flattenTree(list, None)
       IN IF active \notin FlatIds(flat) \/ over \notin FlatIds(flat)
          THEN NoPosition
          ELSE IF isDescendant(list, active, over) THEN NoPosition
          ELSE LET src == MapGet(flat, active)
                   tgt == MapGet(flat, over)
                   overDepth == getDepth(list, over)
               IN IF ~geo.activeRect \/ geo.height = 0 THEN NoPosition
                  ELSE IF offset < UNPARENT_THRESHOLD /\ src.parentId # None
                       THEN IF tgt.parentId = None
                            THEN MidPoint(over, geo)
                            ELSE [type |-> "root", id |-> over]
                  ELSE IF /\ offset > CHILD_THRESHOLD
                          /\ overDepth < MAX_DEPTH_CATEGORIES - 1
                       THEN [type |-> "child", id |-> over]
                  ELSE MidPoint(over, geo)

\* the early returns of handleDragEnd: TRUE when the drop is applied
DropAcceptedCategories(list, active, over, pos) ==
  LET flat == flattenTree(list, None)
  IN /\ over # None
     /\ pos # NoPosition
     /\ active \in FlatIds(flat)
     /\ pos.id \in FlatIds(flat)
     /\ active # pos.id
     /\ (pos.type = "child" =>
           /\ ~isDescendant(list, active, pos.id)
           /\ ~(getDepth(list, pos.id) >= MAX_DEPTH_CATEGORIES - 1))

\* the locals of handleDragEnd after the switch and the splice
MoveCategories(list, active, pos) ==
  LET flat == flattenTree(list, None)
      src == MapGet(flat, active)
      tgt == MapGet(flat, pos.id)
      newFlat == SeqWithout(flat, {src.id})
      overIndex == IndexOfId(newFlat, tgt.id)
      lastChildIndex == LastChildIndex(newFlat, tgt.id)
      insertIndex ==
        CASE pos.type = "before" -> overIndex
          [] pos.type = "after" -> overIndex + 1
          [] pos.type = "child" ->
               IF lastChildIndex = -1 THEN overIndex + 1 ELSE lastChildIndex + 1
          [] pos.type = "root" -> LastRootIndex(newFlat) + 1
      newParentId ==
        CASE pos.type = "before" -> tgt.parentId
          [] pos.type = "after" -> tgt.parentId
          [] pos.type = "child" -> tgt.id
          [] pos.type = "root" -> None
  IN [src |-> src,
      overIndex |-> overIndex,
      insertIndex |-> insertIndex,
      newParentId |-> newParentId,
      action |-> IF pos.type = "child" THEN "SUBCATEGORY_MOVED"
                 ELSE "ORDER_CHANGED",
      newFlat |-> InsertAt(newFlat, insertIndex,
                           [src EXCEPT !.parentId = newParentId])]

handleDragEndCategories(over) ==
  /\ activeId # None
  /\ IF DropAcceptedCategories(items, activeId, over, currentPosition)
     THEN LET m == MoveCategories(items, activeId, currentPosition)
          IN /\ items' = buildTree(m.newFlat)
             /\ effects' =
                  [Effects("categoriesDragEnd", 1, 1) EXCEPT
                     !.entry =
                        [action |-> m.action, id |-> m.src.id,
                         name |-> m.src.name,
                         previousState |-> [parentId |-> m.src.parentId,
                                            position |-> m.overIndex],
                         newState |-> [parentId |-> m.newParentId,
                                       position |-> m.insertIndex]]]
     ELSE /\ items' = items
          /\ effects' = Effects("categoriesDragEnd", 0, 0)
  /\ resetDrag

\* mutant: the action does not depend on the descendants
handleDeleteCategoriesPlain(id) ==
  /\ NoDragInProgress
  /\ IF FlatHas(id)
     THEN LET itemToDelete == FlatGet(id)
              childrenIds == getAllChildren(flattenedTree, id, Len(flattenedTree))
                             \cup {id}
              newFlat == SeqWithout(flattenedTree, childrenIds)
          IN /\ items' = buildTree(newFlat)
             /\ effects' =
                  [Effects("categoriesDelete", 1, 1) EXCEPT
                     !.entry =
                        [action |-> "CATEGORY_REMOVED",
                         id |-> itemToDelete.id, name |-> itemToDelete.name,
                         status |-> "inactive", deletedAt |-> TRUE]]
     ELSE /\ items' = items
          /\ effects' = Effects("categoriesDelete", 0, 0)
  /\ UNCHANGED <<activeId, overId, offsetLeft, currentPosition>>

\* handleDelete of the categories editor; saveCategories and addToHistory
\* catch their own errors, so the catch block of handleDelete is not entered
handleDeleteCategories(id) ==
  /\ NoDragInProgress
  /\ IF FlatHas(id)
     THEN LET itemToDelete == FlatGet(id)
              childrenIds == getAllChildren(flattenedTree, id, Len(flattenedTree))
                             \cup {id}
              newFlat == SeqWithout(flattenedTree, childrenIds)
          IN /\ items' = buildTree(newFlat)
             /\ effects' =
                  [Effects("categoriesDelete", 1, 1) EXCEPT
                     !.entry =
                        [action |-> IF Cardinality(childrenIds) > 1
                                    THEN "SUBCATEGORY_REMOVED"
                                    ELSE "CATEGORY_REMOVED",
                         id |-> itemToDelete.id, name |-> itemToDelete.name,
                         status |-> "inactive", deletedAt |-> TRUE]]
     ELSE /\ items' = items
          /\ effects' = Effects("categoriesDelete", 0, 0)
  /\ UNCHANGED <<activeId, overId, offsetLeft, currentPosition>>

ReachableIntentsCategories(list, active) ==
  { ClassifyCategories(list, active, off, over, geo) :
      off \in Offsets \cup {0},
      over \in FlatIds(flattenTree(list, None)) \cup {None},
      geo \in Geometries }

InitCategories ==
  /\ items \in ForestsUpTo(MaxShape)
  /\ activeId \in FlatIds(flattenTree(items, None)) \cup {None}
  /\ overId = None
  /\ offsetLeft = 0
  /\ currentPosition \in
       (IF activeId = None THEN {NoPosition}
        ELSE ReachableIntentsCategories(items, activeId))
  /\ effects = NoEffects
  /\ probe = NoProbe
  /\ server = NoServer

RunDragEndCategories ==
  /\ probe = NoProbe
  /\ \E over \in Droppables :
        /\ handleDragEndCategories(over)
        /\ probe' = [fn |-> "handleDragEnd", over |-> over, active |-> activeId,
                     pos |-> currentPosition, before |-> items]
        /\ UNCHANGED server

RunDeleteCategories ==
  /\ probe = NoProbe
  /\ \E id \in 1..MaxShape :
        /\ handleDeleteCategories(id)
        /\ probe' = [fn |-> "handleDelete", id |-> id, before |-> items]
        /\ UNCHANGED server

NextCategories == RunDragEndCategories \/ RunDeleteCategories

SpecCategories == InitCategories /\ [][NextCategories]_vars

(***************************************************************************)
(* The flat categories editor (src/app/supercontent/@categories/page.tsx): *)
(* items is one list of entries with a parentId, rendered as roots (the    *)
(* entries without parent, in list order) and, under every row, the        *)
(* entries whose parentId is the row's id, in list order.  saveCategories  *)
(* throws when the PUT fails; saveOk is the outcome of the request.        *)
(***************************************************************************)
MAX_DEPTH_FLAT == 5
MaxFlat == 4

TreeItem(id, name, parentId) == [id |-> id, name |-> name, parentId |-> parentId]

\* items.find((x) => x.id === id)
FindFlat(list, id) == list[IndexOfId(list, id) + 1]

\* isDescendant local to handleDragOver; the recursion follows parentId
RECURSIVE isDescendantFlat(_, _, _, _)
isDescendantFlat(list, parentId, childId, fuel) ==
  IF parentId = None \/ fuel = 0 THEN FALSE
  ELSE IF childId \notin FlatIds(list) THEN FALSE
  ELSE IF FindFlat(list, childId).parentId = parentId THEN TRUE
  ELSE isDescendantFlat(list, parentId, FindFlat(list, childId).parentId, fuel - 1)

\* getDepth local to handleDragOver
RECURSIVE getDepthFlat(_, _, _)
getDepthFlat(list, id, fuel) ==
  IF fuel = 0 \/ id \notin FlatIds(list) THEN 0
  ELSE IF FindFlat(list, id).parentId = None THEN 0
  ELSE 1 + getDepthFlat(list, FindFlat(list, id).parentId, fuel - 1)

ClassifyFlat(list, active, offset, over, geo) ==
  IF over = None \/ ~geo.overRect THEN NoPosition
  ELSE IF over = active THEN NoPosition
  ELSE IF active \notin FlatIds(list) \/ over \notin FlatIds(list) THEN NoPosition
  ELSE IF isDescendantFlat(list, active, over, Len(list)) THEN NoPosition
  ELSE LET src == FindFlat(list, active)
           tgt == FindFlat(list, over)
           overDepth == getDepthFlat(list, over, Len(list))
       IN IF ~geo.activeRect \/ geo.height = 0 THEN NoPosition
          ELSE IF offset < UNPARENT_THRESHOLD /\ src.parentId # None
               THEN IF tgt.parentId = None
                    THEN MidPoint(over, geo)
                    ELSE [type |-> "root", id |-> over]
          ELSE IF offset > CHILD_THRESHOLD /\ overDepth < MAX_DEPTH_FLAT - 1
               THEN [type |-> "child", id |-> over]
          ELSE MidPoint(over, geo)

\* the list handleDragEnd hands to setItems
MovedFlat(list, active, over, pos) ==
  LET activeItem == FindFlat(list, active)
      overItem == FindFlat(list, over)
      updatedItem ==
        [activeItem EXCEPT !.parentId =
           CASE pos.type = "child" -> overItem.id
             [] pos.type = "root" -> None
             [] OTHER -> overItem.parentId]
      overIndex == IndexOfId(list, overItem.id)
      newIndex == IF pos.type = "after" THEN overIndex + 1 ELSE overIndex
  IN InsertAt(SeqWithout(list, {activeItem.id}), newIndex, updatedItem)

handleDragEndFlat(over, saveOk) ==
  /\ activeId # None
  /\ IF /\ over # None
        /\ activeId # over
        /\ currentPosition # NoPosition
        /\ activeId \in FlatIds(items)
        /\ over \in FlatIds(items)
     THEN /\ items' = MovedFlat(items, activeId, over, currentPosition)
          /\ effects' = Effects("flatDragEnd", 1, IF saveOk THEN 1 ELSE 0)
     ELSE /\ items' = items
          /\ effects' = Effects("flatDragEnd", 0, 0)
  /\ resetDrag

handleAddCategory(newCategoryName, newId, saveOk) ==
  /\ NoDragInProgress
  /\ newId \notin FlatIds(items)
  /\ IF Trim(newCategoryName) = <<>>
     THEN /\ items' = items
          /\ effects' = Effects("flatAdd", 0, 0)
     ELSE LET newItems == Append(items, TreeItem(newId, Trim(newCategoryName), None))
          IN /\ items' = IF saveOk THEN newItems ELSE items
             /\ effects' = Effects("flatAdd", 1, IF saveOk THEN 1 ELSE 0)
  /\ UNCHANGED <<activeId, overId, offsetLeft, currentPosition>>

\* getAllDescendants of handleDelete
RECURSIVE getAllDescendants(_, _, _)
getAllDescendants(list, parentId, fuel) ==
  IF fuel = 0 THEN {}
  ELSE LET children == {list[k].id : k \in {j \in 1..Len(list) : list[j].parentId = parentId}}
       IN children \cup UNION {getAllDescendants(list, c, fuel - 1) : c \in children}

handleDeleteFlat(id, saveOk) ==
  /\ NoDragInProgress
  /\ IF id \in FlatIds(items)
     THEN LET idsToRemove == {id} \cup getAllDescendants(items, id, Len(items))
              newItems == SeqWithout(items, idsToRemove)
          IN /\ items' = IF saveOk THEN newItems ELSE items
             /\ effects' = Effects("flatDelete", 1, IF saveOk THEN 1 ELSE 0)
     ELSE /\ items' = items
          /\ effects' = Effects("flatDelete", 0, 0)
  /\ UNCHANGED <<activeId, overId, offsetLeft, currentPosition>>

\* CategoryTree.handleRename, called by the row when the trimmed value
\* differs from item.name
handleRenameFlat(id, newName, saveOk) ==
  /\ NoDragInProgress
  /\ IF id \in FlatIds(items)
     THEN /\ items' = [k \in 1..Len(items) |->
                        IF items[k].id = id THEN [items[k] EXCEPT !.name = newName]
                        ELSE items[k]]
          /\ effects' = Effects("flatRename", 1, IF saveOk THEN 1 ELSE 0)
     ELSE /\ items' = items
          /\ effects' = Effects("flatRename", 0, 0)
  /\ UNCHANGED <<activeId, overId, offsetLeft, currentPosition>>

\* the item lists the editor loads: flattened forests
StripChildren(flat) ==
  [k \in 1..Len(flat) |-> TreeItem(flat[k].id, flat[k].name, flat[k].parentId)]

FlatLists == {StripChildren(flattenTree(f, None)) : f \in ForestsUpTo(MaxFlat)}

ReachableIntentsFlat(list, active) ==
  { ClassifyFlat(list, active, off, over, geo) :
      off \in Offsets \cup {0}, over \in FlatIds(list) \cup {None},
      geo \in Geometries }

InitFlat ==
  /\ items \in FlatLists
  /\ activeId \in FlatIds(items) \cup {None}
  /\ overId = None
  /\ offsetLeft = 0
  /\ currentPosition \in (IF activeId = None THEN {NoPosition}
                           ELSE ReachableIntentsFlat(items, activeId))
  /\ effects = NoEffects
  /\ probe = NoProbe
  /\ server = NoServer

RunDragEndFlat ==
  /\ probe = NoProbe
  /\ \E over \in FlatIds(items) \cup {None}, saveOk \in BOOLEAN :
        /\ handleDragEndFlat(over, saveOk)
        /\ probe' = [fn |-> "handleDragEnd", over |-> over, active |-> activeId,
                     pos |-> currentPosition, saveOk |-> saveOk, before |-> items]
        /\ UNCHANGED server

RunAddCategory ==
  /\ probe = NoProbe
  /\ \E nm \in NameInputs, i \in 1..(MaxFlat + 1), saveOk \in BOOLEAN :
        /\ handleAddCategory(nm, i, saveOk)
        /\ probe' = [fn |-> "handleAddCategory", name |-> nm, id |-> i,
                     saveOk |-> saveOk, before |-> items]
        /\ UNCHANGED server

RunDeleteFlat ==
  /\ probe = NoProbe
  /\ \E id \in 1..MaxFlat, saveOk \in BOOLEAN :
        /\ handleDeleteFlat(id, saveOk)
        /\ probe' = [fn |-> "handleDelete", id |-> id, saveOk |-> saveOk,
                     before |-> items]
        /\ UNCHANGED server

RunRenameFlat ==
  /\ probe = NoProbe
  /\ \E id \in 1..MaxFlat, nm \in Names, saveOk \in BOOLEAN :
        /\ handleRenameFlat(id, nm, saveOk)
        /\ probe' = [fn |-> "handleRename", id |-> id, name |-> nm,
                     saveOk |-> saveOk, before |-> items]
        /\ UNCHANGED server

NextFlat == RunDragEndFlat \/ RunAddCategory \/ RunDeleteFlat \/ RunRenameFlat

SpecFlat == InitFlat /\ [][NextFlat]_vars

(***************************************************************************)
(* The history route (src/app/api/categories/history/route.ts).  A POST    *)
(* handler is a sequence of awaited steps: it reads the file, then writes  *)
(* the file; the handlers of several requests interleave at every await.   *)
(* The n-th action posted is the number n (its id is a fresh UUID).        *)
(***************************************************************************)
HISTORY_CAP == 1000
MaxPosts == 4

Request(kind, n, body, pc, local) ==
  [kind |-> kind, n |-> n, body |-> body, pc |-> pc, local |-> local]

HistoryRequests == {r \in server.requests : r.kind = "history"}

\* [action, ...history].slice(0, 1000)
UpdatedHistory(action, history) ==
  LET all == <<action>> \o history
  IN SubSeq(all, 1, Min(Len(all), HISTORY_CAP))

\* the route handler starts: await ensureHistoryFile(), await req.json()
PostStart(action) ==
  /\ server' = [server EXCEPT
                  !.requests = @ \cup {Request("history", action, <<>>, "read", <<>>)},
                  !.posted = Append(@, action)]

\* const historyData = await fs.readFile(historyPath, "utf-8")
PostRead(r) ==
  /\ r.pc = "read"
  /\ server' = [server EXCEPT
                  !.requests = (@ \ {r}) \cup {[r EXCEPT !.pc = "write",
                                                         !.local = server.history]}]

\* await fs.writeFile(historyPath, JSON.stringify({ history: updatedHistory }))
PostWrite(r) ==
  /\ r.pc = "write"
  /\ server' = [server EXCEPT
                  !.requests = @ \ {r},
                  !.history = UpdatedHistory(r.n, r.local)]

EditorIdle ==
  UNCHANGED <<items, activeId, overId, offsetLeft, currentPosition, effects, probe>>

InitHistory ==
  /\ items = <<>>
  /\ activeId = None
  /\ overId = None
  /\ offsetLeft = 0
  /\ currentPosition = NoPosition
  /\ effects = NoEffects
  /\ probe = NoProbe
  /\ server = NoServer

HistoryPostArrives ==
  /\ Len(server.posted) < MaxPosts
  /\ PostStart(Len(server.posted) + 1)
  /\ EditorIdle

HistoryPostReads == \E r \in HistoryRequests : PostRead(r) /\ EditorIdle

HistoryPostWrites == \E r \in HistoryRequests : PostWrite(r) /\ EditorIdle

NextHistory == HistoryPostArrives \/ HistoryPostReads \/ HistoryPostWrites

SpecHistory == InitHistory /\ [][NextHistory]_vars

(***************************************************************************)
(* addToHistory of the nested categories editor (src/app/categories/       *)
(* page.tsx 580-618) against the history route.  The editor is             *)
(* server.sessions[1]: actionHistory is its React state, loaded what       *)
(* loadHistory put there on mount, added the ids addToHistory has created  *)
(* in order, failed the ids whose POST failed.                             *)
(***************************************************************************)
MaxActions == 3

HistorySession(actionHistory, loaded, added, failed) ==
  [actionHistory |-> actionHistory, loaded |-> loaded, added |-> added,
   failed |-> failed]

\* the history file when the editor mounts: empty, or one older entry
LoadedHistories == {<<>>, <<[id |-> MaxActions + 1]>>}

\* mutant: the rollback drops the head of the list
RollBackHead(prev, id) == IF prev = <<>> THEN <<>> ELSE Tail(prev)

\* setActionHistory((prev) => prev.filter((item) => item.id !== newAction.id))
RollBack(prev, id) == SeqWithout(prev, {id})

\* addToHistory up to the fetch: the entry goes to the head of the local
\* list and the POST leaves the editor
addToHistory(id) ==
  LET me == server.sessions[1]
      newAction == [id |-> id]
  IN server' = [server EXCEPT
                  !.sessions[1] =
                     HistorySession(<<newAction>> \o me.actionHistory, me.loaded,
                                    Append(me.added, id), me.failed),
                  !.requests = @ \cup {Request("history", newAction, <<>>,
                                               "read", <<>>)},
                  !.posted = Append(@, newAction)]

\* the fetch rejects or answers not ok: the catch block rolls back
PostFails(r) ==
  LET me == server.sessions[1]
  IN server' = [server EXCEPT
                  !.requests = @ \ {r},
                  !.sessions[1] =
                     HistorySession(RollBack(me.actionHistory, r.n.id),
                                    me.loaded, me.added,
                                    me.failed \cup {r.n.id})]

InitRollback ==
  /\ items = <<>>
  /\ activeId = None
  /\ overId = None
  /\ offsetLeft = 0
  /\ currentPosition = NoPosition
  /\ effects = NoEffects
  /\ probe = NoProbe
  /\ \E loaded \in LoadedHistories :
        server = [NoServer EXCEPT
                    !.history = loaded,
                    !.sessions = <<HistorySession(loaded, loaded, <<>>, {})>>]

EntryAdded ==
  /\ Len(server.sessions[1].added) < MaxActions
  /\ addToHistory(Len(server.sessions[1].added) + 1)
  /\ EditorIdle

EntryPostReads == \E r \in HistoryRequests : PostRead(r) /\ EditorIdle

EntryPostWrites == \E r \in HistoryRequests : PostWrite(r) /\ EditorIdle

EntryPostFails == \E r \in HistoryRequests : PostFails(r) /\ EditorIdle

NextRollback ==
  EntryAdded \/ EntryPostReads \/ EntryPostWrites \/ EntryPostFails

SpecRollback == InitRollback /\ [][NextRollback]_vars

(***************************************************************************)
(* The product-structure route (src/unnamed/part_005, lines 54-82) and the *)
(* editors that load from it and save to it.  Every mutation of an editor  *)
(* sends the whole mutated forest.  The POST handler takes no lock: its    *)
(* fs.writeFile opens the file with truncation and then writes the text    *)
(* from offset 0 of its own descriptor, two steps that the steps of        *)
(* another request can separate.  server.fields is the text of the file,   *)
(* as a sequence of JSON tokens.                                           *)
(***************************************************************************)
MaxSessions == 2
MaxSaves == 3
MaxStored == 2

Session(loaded, base, local, edits) ==
  [loaded |-> loaded, base |-> base, local |-> local, edits |-> edits]

SessionIds == 1..MaxSessions

SaveRequests == {r \in server.requests : r.kind = "save"}

Tok(t) == [t |-> t, id |-> None, name |-> <<>>, type |-> "", required |-> FALSE]

Scalars(node) ==
  [t |-> "scalars", id |-> node.id, name |-> node.name, type |-> node.type,
   required |-> node.required]

\* JSON.stringify(body, null, 2), token by token
RECURSIVE StringifyNodes(_)
StringifyNodes(list) ==
  IF list = <<>> THEN <<>>
  ELSE <<Tok("{"), Scalars(Head(list)), Tok("[")>>
         \o StringifyNodes(Head(list).children)
         \o <<Tok("]"), Tok("}")>>
         \o StringifyNodes(Tail(list))

Stringify(list) == <<Tok("[")>> \o StringifyNodes(list) \o <<Tok("]")>>

\* JSON.parse of the nodes that start at text[i], up to their closing "]":
\* ok is FALSE when the text is not a list of nodes
RECURSIVE ParseNodes(_, _)
ParseNodes(text, i) ==
  IF i > Len(text) THEN [ok |-> FALSE, val |-> <<>>, next |-> i]
  ELSE IF text[i].t = "]" THEN [ok |-> TRUE, val |-> <<>>, next |-> i + 1]
  ELSE IF \/ i + 2 > Len(text)
          \/ text[i].t # "{"
          \/ text[i + 1].t # "scalars"
          \/ text[i + 2].t # "["
       THEN [ok |-> FALSE, val |-> <<>>, next |-> i]
  ELSE LET kids == ParseNodes(text, i + 3)
       IN IF ~kids.ok \/ kids.next > Len(text) \/ text[kids.next].t # "}"
          THEN [ok |-> FALSE, val |-> <<>>, next |-> i]
          ELSE LET rest == ParseNodes(text, kids.next + 1)
                   node == [id |-> text[i + 1].id, name |-> text[i + 1].name,
                            type |-> text[i + 1].type,
                            required |-> text[i + 1].required,
                            children |-> kids.val]
               IN [ok |-> rest.ok, val |-> <<node>> \o rest.val,
                   next |-> rest.next]

\* GET: JSON.parse(data), and { fields: [] } when reading or parsing throws
StoredFields(text) ==
  IF text = <<>> \/ text[1].t # "[" THEN <<>>
  ELSE LET parsed == ParseNodes(text, 2)
       IN IF parsed.ok /\ parsed.next = Len(text) + 1 THEN parsed.val ELSE <<>>

\* write(fd, data) at offset 0 of a descriptor opened before: the bytes of
\* the file beyond the data stay
Overlay(text, data) ==
  IF Len(data) >= Len(text) THEN data
  ELSE data \o SubSeq(text, Len(data) + 1, Len(text))

SavesSent == Len(server.written) + Cardinality(SaveRequests)

\* the field handleAddField appends
StoreField(id) ==
  [id |-> id, name |-> <<"p">>, type |-> "text", required |-> FALSE,
   children |-> <<>>]

\* what earlier saves left in the file: 0..MaxStored root fields
StoredForests == {[i \in 1..k |-> StoreField(i)] : k \in 0..MaxStored}

\* the forest handleDelete hands to setItems and saveFields
DeletedForest(list, id) ==
  LET flat == flattenTree(list, None)
  IN buildTree(SeqWithout(flat, getAllChildren(flat, id, Len(flat)) \cup {id}))

\* loadFields, run once when the editor mounts: GET /api/product-structure,
\* setItems(data.fields || [])
loadFields(c) ==
  LET me == server.sessions[c]
      got == StoredFields(server.fields)
  IN /\ ~me.loaded
     /\ server' = [server EXCEPT
                     !.sessions[c] = Session(TRUE, got, got, me.edits)]

\* setItems(updated); saveFields(updated): the POST leaves the editor
EditAndSave(c, updated) ==
  LET me == server.sessions[c]
  IN /\ me.loaded
     /\ SavesSent < MaxSaves
     /\ server' = [server EXCEPT
                     !.sessions[c] = Session(TRUE, me.base, updated, me.edits + 1),
                     !.requests = @ \cup {Request("save", <<c, SavesSent + 1>>,
                                                  updated, "open", <<>>)}]

\* POST, fs.writeFile: open(dataFile, "w") truncates the file
SaveOpen(r) ==
  /\ r.kind = "save"
  /\ r.pc = "open"
  /\ server' = [server EXCEPT
                  !.requests = (@ \ {r}) \cup {[r EXCEPT !.pc = "write"]},
                  !.fields = <<>>]

\* POST, fs.writeFile: the text goes to the descriptor, then the response
SaveWrite(r) ==
  /\ r.kind = "save"
  /\ r.pc = "write"
  /\ server' = [server EXCEPT
                  !.requests = @ \ {r},
                  !.fields = Overlay(@, Stringify(r.body)),
                  !.written = Append(@, r.body)]

InitStore ==
  /\ items = <<>>
  /\ activeId = None
  /\ overId = None
  /\ offsetLeft = 0
  /\ currentPosition = NoPosition
  /\ effects = NoEffects
  /\ probe = NoProbe
  /\ \E stored \in StoredForests :
        server = [NoServer EXCEPT
                    !.fields = Stringify(stored),
                    !.sessions = [c \in SessionIds |->
                                    Session(FALSE, <<>>, <<>>, 0)]]

SessionLoads == \E c \in SessionIds : loadFields(c) /\ EditorIdle

\* handleAddField; the id, crypto.randomUUID(), is one no editor has used
SessionAdds ==
  \E c \in SessionIds :
     /\ EditAndSave(c, Append(server.sessions[c].local,
                              StoreField(MaxStored + SavesSent + 1)))
     /\ EditorIdle

SessionDeletes ==
  \E c \in SessionIds, id \in 1..(MaxStored + MaxSaves) :
     /\ id \in FlatIds(flattenTree(server.sessions[c].local, None))
     /\ EditAndSave(c, DeletedForest(server.sessions[c].local, id))
     /\ EditorIdle

ServerOpens == \E r \in SaveRequests : SaveOpen(r) /\ EditorIdle

ServerWrites == \E r \in SaveRequests : SaveWrite(r) /\ EditorIdle

NextStore ==
  SessionLoads \/ SessionAdds \/ SessionDeletes \/ ServerOpens \/ ServerWrites

SpecStore == InitStore /\ [][NextStore]_vars

(***************************************************************************)
(* Reference notions, read off the nested structure itself                 *)
(***************************************************************************)
RECURSIVE AllNodes(_)
AllNodes(list) ==
  UNION { {list[k]} \cup AllNodes(list[k].children) : k \in 1..Len(list) }

IdsOf(list) == {x.id : x \in AllNodes(list)}

NodeOf(list, id) == CHOOSE x \in AllNodes(list) : x.id = id

\* ids strictly inside the subtree rooted at a (empty when a is absent)
Inside(list, a) ==
  IF a \in IdsOf(list) THEN IdsOf(NodeOf(list, a).children) ELSE {}

\* <<id, depth, parent>> of every node
RECURSIVE Placement(_, _, _)
Placement(list, depth, parent) ==
  UNION { {<<list[k].id, depth, parent>>}
          \cup Placement(list[k].children, depth + 1, list[k].id) :
          k \in 1..Len(list) }

DepthOf(list, id) == (CHOOSE t \in Placement(list, 0, None) : t[1] = id)[2]
ParentOf(list, id) == (CHOOSE t \in Placement(list, 0, None) : t[1] = id)[3]

\* edges on the longest path from a down to a leaf of its subtree
HeightOf(list, a) ==
  LET below == {DepthOf(list, d) : d \in Inside(list, a)}
  IN IF below = {} THEN 0
     ELSE (CHOOSE m \in below : \A d \in below : d <= m) - DepthOf(list, a)

\* ancestors of id in the parent-pointer view of a flat list
RECURSIVE AncestorsIn(_, _, _)
AncestorsIn(flat, id, fuel) ==
  IF fuel = 0 \/ id \notin FlatIds(flat) THEN {}
  ELSE LET p == MapGet(flat, id).parentId
       IN IF p = None THEN {} ELSE {p} \cup AncestorsIn(flat, p, fuel - 1)

NoSelfAncestor(flat) ==
  \A id \in FlatIds(flat) : id \notin AncestorsIn(flat, id, Len(flat) + 1)

(***************************************************************************)
(* Claims                                                                  *)
(***************************************************************************)

\* C1 -- Depth bound: starting from a forest whose nodes are all at depth
\* <= MAX_DEPTH-1, after any sequence of accepted Moves every node of the
\* forest is still at depth <= MAX_DEPTH-1.
DepthBoundPreserved ==
  \A t \in Placement(items, 0, None) : t[2] <= MAX_DEPTH - 1

\* C2 -- Acyclicity: in the flat list spliced by an accepted Move, and in the
\* forest rebuilt from it, no node is its own ancestor.
AcyclicityPreserved ==
  [][(effects'.op = "dragEnd" /\ effects'.saves = 1)
     => /\ NoSelfAncestor(SplicedFlat(items, activeId, currentPosition))
        /\ NoSelfAncestor(flattenTree(items', None))]_vars

\* C3 -- Round-trip law: buildTree(flattenTree(F)) equals F for every nested
\* forest F with pairwise distinct ids (ids, names, parent/child relation,
\* order of roots and of the children under every parent).
RoundTripLaw == probe.fn = "roundTrip" => probe.out = items

RoundTripWitness ==
  /\ probe.fn = "roundTrip"
  /\ \E t \in Placement(items, 0, None) : t[2] = 2
  /\ \E x \in AllNodes(items), y \in AllNodes(items) : x.name # y.name

ClassifierRejectsInvalid ==
  (/\ probe.fn = "handleDragOver"
   /\ (\/ probe.over = activeId
       \/ probe.over \notin IdsOf(items)
       \/ activeId \notin IdsOf(items)
       \/ probe.over \in Inside(items, activeId)))
  => currentPosition = NoPosition

\* C6 -- isDescendant(forest, a, n) is true exactly when n lies strictly
\* inside the subtree rooted at a, wherever a sits in the forest; it is false
\* when a or n is absent and when a = n.
IsDescendantExact ==
  probe.fn = "isDescendant" => (probe.out <=> probe.n \in Inside(items, probe.a))

\* the new parent a Move with the given intent asks for
IntendedParent(list, pos) ==
  CASE pos.type = "child" -> pos.id
    [] pos.type = "root" -> None
    [] OTHER -> ParentOf(list, pos.id)

\* applying the intent would put the source under itself or one of its
\* descendants, or would put a node deeper than MAX_DEPTH-1
IntentViolates(list, src, pos) ==
  LET p == IntendedParent(list, pos)
      newDepth == IF p = None THEN 0 ELSE DepthOf(list, p) + 1
  IN \/ p \in Inside(list, src) \cup {src}
     \/ newDepth + HeightOf(list, src) > MAX_DEPTH - 1

\* C7 -- Move guard: whenever applying the intent at drop time would place
\* the source under one of its own descendants or put any node deeper than
\* MAX_DEPTH-1, the Move is aborted: forest unchanged, no save, no history
\* entry; for every intent type.
MoveGuard ==
  [][(/\ effects'.op = "dragEnd"
      /\ currentPosition # NoPosition
      /\ activeId \in IdsOf(items)
      /\ currentPosition.id \in IdsOf(items)
      /\ activeId # currentPosition.id
      /\ IntentViolates(items, activeId, currentPosition))
     => /\ items' = items
        /\ effects'.saves = 0
        /\ effects'.history = 0]_vars

\* the intent the precedence rules of the classifier prescribe
ExpectedIntent(list, src, offset, over, geo) ==
  LET upper == 2 * (IF geo.dy < 0 THEN 0
                    ELSE IF geo.dy > geo.height THEN geo.height ELSE geo.dy)
               < geo.height
      midpoint == [type |-> IF upper THEN "before" ELSE "after", id |-> over]
  IN IF offset < -20 /\ ParentOf(list, src) # None
     THEN IF ParentOf(list, over) = None THEN midpoint
          ELSE [type |-> "root", id |-> over]
     ELSE IF offset > 20 /\ DepthOf(list, over) < MAX_DEPTH - 1
          THEN [type |-> "child", id |-> over]
          ELSE midpoint

\* C8 -- For a valid gesture (source # target, both present, target not
\* inside the source's subtree, target row height > 0) the intent follows
\* the precedence unparent (before/after on a root target, else root), then
\* child, then the midpoint rule; child is never emitted for a target at
\* depth >= MAX_DEPTH-1, root never for a source that is a root.
ValidGesture ==
  /\ probe.fn = "handleDragOver"
  /\ probe.over # activeId
  /\ probe.over \in IdsOf(items)
  /\ activeId \in IdsOf(items)
  /\ probe.over \notin Inside(items, activeId)
  /\ probe.geo.overRect /\ probe.geo.activeRect /\ probe.geo.height > 0

ClassifierPrecedence ==
  ValidGesture
  => /\ currentPosition
          = ExpectedIntent(items, activeId, offsetLeft, probe.over, probe.geo)
     /\ (currentPosition.type = "child"
           => DepthOf(items, probe.over) < MAX_DEPTH - 1)
     /\ (currentPosition.type = "root" => ParentOf(items, activeId) # None)

\* a row at depth MAX_DEPTH-1 under a pointer far to the right: the child
\* rule gives way to the midpoint rule
ClassifierWitness ==
  /\ ValidGesture
  /\ offsetLeft > CHILD_THRESHOLD
  /\ DepthOf(items, probe.over) >= MAX_DEPTH - 1
  /\ currentPosition.type \in {"before", "after"}

\* C9 -- Exactly one history entry per mutation: every handler run that
\* changes the forest calls addToHistory exactly once.
OneHistoryEntryPerMutation ==
  [][items' # items => effects'.history = 1]_vars

\* C10 -- Dangling-parent leniency: buildTree places a flat node whose
\* parentId matches no node of the flat list into the root list, so every
\* node of the flat input appears in the rebuilt forest.
DanglingBecomesRoot ==
  (/\ probe.fn = "buildTree"
   /\ \E k \in 1..Len(probe.flat) :
         probe.flat[k].parentId \notin FlatIds(probe.flat) \cup {None})
  => /\ \A k \in 1..Len(probe.flat) :
          probe.flat[k].parentId \notin FlatIds(probe.flat) \cup {None}
          => \E j \in 1..Len(probe.out) : probe.out[j].id = probe.flat[k].id
     /\ IdsOf(probe.out) = FlatIds(probe.flat)

\* t is s without its leading and trailing blanks
IsTrimOf(t, s) ==
  /\ t = <<>> \/ (t[1] # Blank /\ t[Len(t)] # Blank)
  /\ \E i \in 0..Len(s), j \in 0..Len(s) :
        /\ i + Len(t) + j = Len(s)
        /\ \A k \in 1..Len(s) :
              IF k <= i \/ k > i + Len(t) THEN s[k] = Blank ELSE s[k] = t[k - i]

\* C11 -- Create with a non-blank name appends exactly one new node as the
\* last root: fresh id, the trimmed name, no parent, no children, type text,
\* required false; every existing node is unchanged; exactly one CREATED
\* history entry for the new node is emitted.
CreateAppendsRoot ==
  (probe.fn = "handleAddField" /\ \E k \in 1..Len(probe.name) : probe.name[k] # Blank)
  => /\ Len(items) = Len(probe.before) + 1
     /\ SubSeq(items, 1, Len(probe.before)) = probe.before
     /\ LET new == items[Len(items)]
        IN /\ new.id = probe.id
           /\ new.id \notin IdsOf(probe.before)
           /\ IsTrimOf(new.name, probe.name)
           /\ new.children = <<>>
           /\ new.type = "text"
           /\ new.required = FALSE
           /\ ParentOf(items, new.id) = None
           /\ effects.saves = 1
           /\ effects.history = 1
           /\ effects.entry.action = "FIELD_CREATED"
           /\ effects.entry.id = new.id
           /\ effects.entry.name = new.name

CreateWitness ==
  /\ probe.fn = "handleAddField"
  /\ Len(probe.before) = 2
  /\ \E t \in Placement(probe.before, 0, None) : t[2] = 1
  /\ probe.name = <<Blank, "p", Blank>>
  /\ Len(items) = 3

\* C12 -- Idempotent rename: renaming a node to its current name (after
\* trimming the edited value) leaves the forest equal to the input and
\* produces no save and no history entry.
RenameIdempotent ==
  (/\ probe.fn = "handleRename"
   /\ probe.id \in IdsOf(probe.before)
   /\ IsTrimOf(NodeOf(probe.before, probe.id).name, probe.editValue))
  => /\ items = probe.before
     /\ effects.saves = 0
     /\ effects.history = 0

RenameWitness ==
  /\ probe.fn = "handleRename"
  /\ probe.editValue = <<Blank, "p", Blank>>
  /\ probe.id \in IdsOf(probe.before)
  /\ NodeOf(probe.before, probe.id).name = <<"p">>
  /\ ParentOf(probe.before, probe.id) = None
  /\ Len(items) > 1

\* C13 -- Cancellation is a no-op: a DragEnd with no target under the
\* pointer or with a null intent leaves the forest unchanged, issues no save
\* request and produces no history entry.
CancellationNoOp ==
  (probe.fn = "handleDragEnd" /\ (probe.over = None \/ probe.pos = NoPosition))
  => /\ items = probe.before
     /\ effects.saves = 0
     /\ effects.history = 0

CancellationWitness ==
  /\ probe.fn = "handleDragEnd"
  /\ probe.over = None
  /\ probe.pos.type = "child"
  /\ activeId = None
  /\ currentPosition = NoPosition

\* the list of siblings a node of the forest sits in
SiblingsOf(list, id) ==
  IF ParentOf(list, id) = None THEN list
  ELSE NodeOf(list, ParentOf(list, id)).children

PositionIn(sibs, id) == CHOOSE k \in 1..Len(sibs) : sibs[k].id = id

AcceptedDrop == probe.fn = "handleDragEnd" /\ effects.saves = 1

\* C18 -- An accepted Move with intent child makes the source the last child
\* of the anchor, whatever children the anchor already has and whatever
\* descendants those children have.
ChildBecomesLast ==
  (AcceptedDrop /\ probe.pos.type = "child")
  => /\ probe.active \in IdsOf(items)
     /\ probe.pos.id \in IdsOf(items)
     /\ LET kids == NodeOf(items, probe.pos.id).children
        IN Len(kids) > 0 /\ kids[Len(kids)].id = probe.active

\* C20 -- An accepted Move with intent before (after) leaves the source as
\* the sibling immediately preceding (following) the anchor, with the
\* anchor's parent as its parent, for every source and anchor position.
BeforeAfterAdjacent ==
  (AcceptedDrop /\ probe.pos.type \in {"before", "after"})
  => /\ probe.active \in IdsOf(items)
     /\ probe.pos.id \in IdsOf(items)
     /\ ParentOf(items, probe.active) = ParentOf(probe.before, probe.pos.id)
     /\ ParentOf(items, probe.pos.id) = ParentOf(probe.before, probe.pos.id)
     /\ LET sibs == SiblingsOf(items, probe.pos.id)
            a == PositionIn(sibs, probe.pos.id)
        IN /\ \E k \in 1..Len(sibs) : sibs[k].id = probe.active
           /\ PositionIn(sibs, probe.active)
                = (IF probe.pos.type = "before" THEN a - 1 ELSE a + 1)

\* C17 -- getDepth(forest, id) returns, for every node present in the forest,
\* the number of edges from the node up to its root (0 for a root), and -1
\* for an id that is absent, the empty forest included.
GetDepthCountsEdges ==
  probe.fn = "getDepth"
  => probe.out = (IF probe.id \in IdsOf(items) THEN DepthOf(items, probe.id)
                  ELSE -1)

GetDepthWitness ==
  /\ probe.fn = "getDepth"
  /\ probe.out = 2
  /\ Len(items) > 1

\* C14 -- Optimistic update without rollback: for every mutation (Create,
\* Rename, Delete, Move), when the save of the mutated forest fails the
\* in-memory forest still holds the mutated forest.
OptimisticUpdateKept ==
  (probe.fn # "none" /\ effects.saves = 1 /\ ~probe.saveOk)
  => CASE probe.fn = "handleAddCategory" ->
            /\ Len(items) = Len(probe.before) + 1
            /\ items[Len(items)].id = probe.id
       [] probe.fn = "handleDelete" -> probe.id \notin FlatIds(items)
       [] probe.fn = "handleRename" -> FindFlat(items, probe.id).name = probe.name
       [] probe.fn = "handleDragEnd" ->
            items = MovedFlat(probe.before, probe.active, probe.over, probe.pos)

\* the entries of a flat list under one parent, in list order
FlatSiblings(list, parent) == SelectSeq(list, LAMBDA e : e.parentId = parent)

\* C19 -- In the flat categories editor a drop with intent before (after)
\* leaves the source as the sibling immediately preceding (following) the
\* target under the target's parent, wherever the source sat in the item
\* list before the drop.
FlatBeforeAfterAdjacent ==
  (/\ probe.fn = "handleDragEnd"
   /\ effects.saves = 1
   /\ probe.over = probe.pos.id
   /\ probe.pos.type \in {"before", "after"})
  => LET parent == FindFlat(probe.before, probe.over).parentId
         sibs == FlatSiblings(items, parent)
     IN /\ probe.active \in FlatIds(sibs)
        /\ probe.over \in FlatIds(sibs)
        /\ IndexOfId(sibs, probe.active)
             = IndexOfId(sibs, probe.over)
               + (IF probe.pos.type = "before" THEN -1 ELSE 1)

SeqRange(q) == {q[k] : k \in 1..Len(q)}

\* C15 -- The persisted history is append-only: after any sequence of
\* history POSTs the stored list holds every posted action (every action
\* whose POST has returned); an entry once stored is not removed by later
\* appends.
HistoryKeepsEveryPost ==
  \A a \in SeqRange(server.posted) :
     (\A r \in HistoryRequests : r.n # a) => a \in SeqRange(server.history)

\* C16 -- Last-writer-wins: when two clients load the same forest, each
\* applies a mutation and each saves, the stored forest after both saves is
\* exactly the forest sent by the save that was processed last; the other
\* client's change is absent and the two forests are never merged or
\* interleaved.
LastWriterWins ==
  LET one == server.sessions[1]
      two == server.sessions[2]
  IN (/\ one.loaded /\ two.loaded
      /\ one.base = two.base
      /\ one.edits = 1 /\ two.edits = 1
      /\ SaveRequests = {})
     => StoredFields(server.fields) = server.written[Len(server.written)]

\* C21 -- Property edits reach every node: for any node id present in the
\* forest at any depth, Rename(id, newName) with a different name produces a
\* forest in which that node carries the new name and every other node and
\* the whole structure are unchanged.
RenameReachesEveryNode ==
  (/\ probe.fn = "handleRename"
   /\ Trim(probe.editValue) # <<>>
   /\ Trim(probe.editValue) # NodeOf(probe.before, probe.id).name)
     => /\ NodeOf(items, probe.id).name = Trim(probe.editValue)
        /\ flattenTree(items, None)
             = [k \in 1..Len(flattenTree(probe.before, None)) |->
                  IF flattenTree(probe.before, None)[k].id = probe.id
                  THEN [flattenTree(probe.before, None)[k]
                          EXCEPT !.name = Trim(probe.editValue)]
                  ELSE flattenTree(probe.before, None)[k]]

\* C22 -- The intent is re-evaluated on every pointer move: at DragEnd the
\* intent that handleDragEnd applies (currentPosition) equals the
\* classification of the latest horizontal offset and the latest target, also
\* when a DragMove changed the offset after the last DragOver.
IntentFollowsPointer ==
  probe.fn = "handleDragEnd"
     => probe.pos = Classify(probe.before, probe.active, probe.offset,
                             probe.over, probe.geo)

\* the positions a node can be said to have: its 0-based index in the
\* depth-first list of the forest, or its 0-based index among its siblings
PositionsOf(list, id) ==
  {IndexOfId(flattenTree(list, None), id),
   PositionIn(SiblingsOf(list, id), id) - 1}

\* C23 -- The history entry emitted for a Move in the nested categories
\* editor records in changes.previousState the source's parentId and
\* position before the move and in changes.newState its parentId and
\* position after the move.
MoveEntryRecordsPositions ==
  (probe.fn = "handleDragEnd" /\ effects.op = "categoriesDragEnd"
     /\ effects.history = 1 /\ probe.active \in IdsOf(items))
     => /\ effects.entry.id = probe.active
        /\ effects.entry.previousState.parentId
             = ParentOf(probe.before, probe.active)
        /\ effects.entry.previousState.position
             \in PositionsOf(probe.before, probe.active)
        /\ effects.entry.newState.parentId = ParentOf(items, probe.active)
        /\ effects.entry.newState.position \in PositionsOf(items, probe.active)

MoveKeepsNodes ==
  AcceptedDrop
     => /\ FlatIds(flattenTree(items, None))
             = FlatIds(flattenTree(probe.before, None))
        /\ Len(flattenTree(items, None))
             = Cardinality(FlatIds(flattenTree(items, None)))

\* the ids of the children of parent (of the roots for None), without id
OtherChildren(list, parent, id) ==
  LET kids == SeqWithout(IF parent = None THEN list
                         ELSE NodeOf(list, parent).children, {id})
  IN [k \in 1..Len(kids) |-> kids[k].id]

\* C26 -- An accepted Move changes only the source's parent and position:
\* every other node keeps its parent, the relative order of the other
\* children under each parent (and of the other roots) is unchanged, and the
\* source's own subtree travels with it with its internal structure and
\* order intact.
MoveFrame ==
  AcceptedDrop
     => /\ \A n \in IdsOf(probe.before) \ {probe.active} :
              /\ n \in IdsOf(items)
              /\ ParentOf(items, n) = ParentOf(probe.before, n)
        /\ \A p \in (IdsOf(probe.before) \cup {None}) \ {probe.active} :
              OtherChildren(items, p, probe.active)
                = OtherChildren(probe.before, p, probe.active)
        /\ probe.active \in IdsOf(items)
        /\ NodeOf(items, probe.active).children
             = NodeOf(probe.before, probe.active).children

\* C27 -- Saves keep the store in step with the editor: when one client
\* performs several mutations in succession, each issuing a save of the whole
\* forest without waiting for the previous one, then once all save requests
\* have completed the persisted forest equals the in-memory forest of the
\* editor.
StoreInStep ==
  \A c \in SessionIds :
     (/\ SaveRequests = {}
      /\ server.sessions[c].edits >= 2
      /\ \A d \in SessionIds \ {c} : server.sessions[d].edits = 0)
        => StoredFields(server.fields) = server.sessions[c].local

\* the history POSTs that have answered { success: true }
Acknowledged ==
  {a \in SeqRange(server.posted) : \A r \in HistoryRequests : r.n # a}

\* C28 -- No acknowledged history entry is lost: every action whose history
\* POST returned success is present in the stored history afterwards, also
\* when two POSTs overlap.
NoAcknowledgedEntryLost ==
  Cardinality(Acknowledged) <= HISTORY_CAP
     => Acknowledged \subseteq SeqRange(server.history)

\* C29 -- Every DragEnd, whether the move is applied, rejected by a guard or
\* cancelled, ends with the drag state fully reset (activeId, overId and
\* currentPosition null, offsetLeft 0), so no intent or offset of one drag
\* survives into the next drag.
DragEndResets ==
  probe.fn = "handleDragEnd"
     => /\ activeId = None
        /\ overId = None
        /\ currentPosition = NoPosition
        /\ offsetLeft = 0

DragEndResetsWitness ==
  /\ probe.fn = "handleDragEnd"
  /\ probe.offset # 0
  /\ probe.pos # NoPosition
  /\ effects.saves = 1
  /\ items # probe.before
  /\ offsetLeft = 0
  /\ currentPosition = NoPosition

\* the entries with the ids of added that are not in failed, newest first
RECURSIVE KeptNewestFirst(_, _)
KeptNewestFirst(added, failed) ==
  IF added = <<>> THEN <<>>
  ELSE LET last == added[Len(added)]
           rest == KeptNewestFirst(SubSeq(added, 1, Len(added) - 1), failed)
       IN IF last \in failed THEN rest ELSE <<[id |-> last]>> \o rest

\* C30 -- Local history rollback in the nested categories editor:
\* addToHistory puts the new entry at the head of the in-memory action
\* history before the POST; if the POST fails exactly that entry is removed
\* again and every other entry (including entries added while the POST was
\* in flight) stays in place and in order; if the POST succeeds the entry
\* stays.
RollbackRemovesExactlyOne ==
  server.sessions[1].actionHistory
     = KeptNewestFirst(server.sessions[1].added, server.sessions[1].failed)
         \o server.sessions[1].loaded

RollbackWitness ==
  /\ server.sessions[1].added = <<1, 2, 3>>
  /\ server.sessions[1].failed = {2}
  /\ server.sessions[1].loaded # <<>>
  /\ HistoryRequests = {}
  /\ server.sessions[1].actionHistory
       = <<[id |-> 3], [id |-> 1]>> \o server.sessions[1].loaded

====
